---- MODULE Spec2Model ----
(***************************************************************************)
(* Model of contract_tweets.py (nofigg/GovContractTweets).                 *)
(*                                                                         *)
(* State: the rows of the contracts table of contracts.db (the ledger),    *)
(* the wall clock, the batch handed to rank_contracts and its result, and  *)
(* the position of a post_contract_tweet call inside its retry loop, and   *)
(* the position of a fetch_sam_contracts call inside its paging loop.      *)
(*                                                                         *)
(* Conventions.                                                            *)
(*  - A key of a raw record (a Python dict) is a set: {} when the key is    *)
(*    absent, {v} when it is present with value v.                         *)
(*  - Time is counted in ticks; TicksPerDay ticks make one day, so that    *)
(*    timedelta.days (a floor) can be told from the exact difference.      *)
(*  - Scores are kept as integers: a score of the model is the score of    *)
(*    the code multiplied by VALUE_DIVISOR (value / 100000 is then exact). *)
(*  - Monetary fields are JSON strings: [num, n] is a string that float()  *)
(*    parses to n (num = TRUE) or rejects with ValueError (num = FALSE).   *)
(*  - A deadline string is [iso, t, aware, off]: fromisoformat accepts it  *)
(*    iff iso; t is its local time, off its UTC offset when aware.         *)
(***************************************************************************)
EXTENDS Integers, Sequences, FiniteSets, TLC

VARIABLES
    clock,        \* wall clock, in ticks (datetime.now / time.time)
    ledger,       \* contract_id values of the rows of table contracts
    contracts,    \* the batch last handed to rank_contracts
    ranked,       \* outcome of the last rank_contracts call
    prev,         \* outcome of the rank_contracts call before that one
    pc,           \* "idle", or "post" inside post_contract_tweet's loop
    contract,     \* <<c>>: argument of the current/last post_contract_tweet
    retry_count,  \* post_contract_tweet's retry_count
    outcomes,     \* "success" / "failure" of each create_tweet call of it
    sleeps,       \* number of time.sleep(5) calls of that invocation
    result,       \* "None" while running, then "True" or "False"
    fetch         \* fetch_sam_contracts: position, locals, requests made

vars == <<clock, ledger, contracts, ranked, prev, pc, contract,
          retry_count, outcomes, sleeps, result, fetch>>

----------------------------------------------------------------------------
(* Bounds of the model *)

MaxClock == 2

TicksPerDay == 2

MaxPrefix == 1

MaxFill == 5

MaxFetch == 1

----------------------------------------------------------------------------
(* Program constants *)

max_retries == 3

TOP_N == 5

VALUE_DIVISOR == 100000

VALUE_CAP == 50

URGENCY_MAX == 30

URGENCY_DAYS == 30

LIMIT == 100

max_results == 1000

Min(a, b) == IF a <= b THEN a ELSE b

Max(a, b) == IF a >= b THEN a ELSE b

Range(s) == {s[i] : i \in DOMAIN s}

\* dict.get(key, default)
Get(field, default) == IF field = {} THEN default ELSE CHOOSE v \in field : TRUE

\* truthiness of dict.get(key) for a string-valued key
Truthy(field) == field # {} /\ field # {""}

SetAsideTable(s) ==
    CASE s = "SDVOSB"  -> 20
      [] s = "WOSB"    -> 20
      [] s = "8A"      -> 15
      [] s = "HUBZone" -> 15
      [] s = "VOSB"    -> 15
      [] s = "SBA"     -> 10
      [] OTHER         -> 0

----------------------------------------------------------------------------
(* Raw opportunity records *)

Money(n) == [num |-> TRUE, n |-> n]

NotANumber == [num |-> FALSE, n |-> 0]

Naive(t) == [iso |-> TRUE, t |-> t, aware |-> FALSE, off |-> 0]

Aware(t, off) == [iso |-> TRUE, t |-> t, aware |-> TRUE, off |-> off]

BadDate == [iso |-> FALSE, t |-> 0, aware |-> FALSE, off |-> 0]

EmptyRecord ==
    [title |-> {}, id |-> {}, noticeId |-> {}, responseDeadLine |-> {},
     award |-> {}, fundingCeiling |-> {}, estimatedTotalContractValue |-> {},
     typeOfSetAside |-> {}, typeOfSetAsideDescription |-> {},
     fullParentPathName |-> {}, uiLink |-> {}, naicsCode |-> {},
     placeOfPerformance |-> {}, active |-> {"Yes"}, type |-> {"Solicitation"}]

\* SDVOSB, $2,000,000, due 30 days after tick 0
RecAlpha ==
    [EmptyRecord EXCEPT
        !.title = {"Alpha"}, !.noticeId = {"N0001"},
        !.responseDeadLine = {Naive(URGENCY_DAYS * TicksPerDay)},
        !.fundingCeiling = {Money(2000000)},
        !.typeOfSetAside = {"SDVOSB"},
        !.fullParentPathName = {<<"DEPT OF DEFENSE", "DEPT OF THE ARMY">>},
        !.uiLink = {"https://sam.gov/opp/N0001"},
        !.naicsCode = {"541512"},
        !.placeOfPerformance = {[city |-> "Austin", state |-> "TX"]}]

\* same noticeId as RecAlpha, due at tick 0, two value sources
RecBravo ==
    [EmptyRecord EXCEPT
        !.title = {"Bravo"}, !.noticeId = {"N0001"},
        !.responseDeadLine = {Naive(0)},
        !.award = {Money(2000000)}, !.fundingCeiling = {Money(7000000)},
        !.typeOfSetAside = {"SDVOSB"},
        !.typeOfSetAsideDescription = {"Service-Disabled Veteran-Owned"}]

\* a title and a set-aside, no identifier, no deadline
RecCharlie ==
    [EmptyRecord EXCEPT !.title = {"Charlie"}, !.typeOfSetAside = {"VOSB"}]

\* no title
RecDelta ==
    [EmptyRecord EXCEPT !.noticeId = {"N0002"}, !.typeOfSetAside = {"WOSB"}]

\* 'id' but no noticeId; deadline with a UTC offset: tick 2 days + 1 at +1
RecEcho ==
    [EmptyRecord EXCEPT
        !.title = {"Echo"}, !.id = {"I0001"},
        !.responseDeadLine = {Aware(2 * TicksPerDay + 1, 1)},
        !.typeOfSetAside = {"8A"}]

\* no identifier at all, same title and deadline as RecEcho, negative value
RecFoxtrot ==
    [EmptyRecord EXCEPT
        !.title = {"Echo"},
        !.responseDeadLine = {Naive(2 * TicksPerDay)},
        !.estimatedTotalContractValue = {Money(-5000000)}]

\* only a title and a noticeId
RecGolf ==
    [EmptyRecord EXCEPT !.title = {"Golf"}, !.noticeId = {"N0002"}]

\* unparseable deadline, value above the cap
RecHotel ==
    [EmptyRecord EXCEPT
        !.title = {"Hotel"}, !.noticeId = {"N0003"},
        !.responseDeadLine = {BadDate},
        !.estimatedTotalContractValue = {Money(10000000)},
        !.typeOfSetAside = {"SBA"},
        !.fullParentPathName = {<<"GENERAL SERVICES ADMINISTRATION">>}]

RawRecords ==
    {RecAlpha, RecBravo, RecCharlie, RecDelta, RecEcho, RecFoxtrot,
     RecGolf, RecHotel}

----------------------------------------------------------------------------
(* rank_contracts: one record *)

\* the first truthy value source, in the order of the if/elif chain
ValueSource(c) ==
    IF c.award # {} THEN c.award
    ELSE IF c.fundingCeiling # {} THEN c.fundingCeiling
    ELSE c.estimatedTotalContractValue

\* float(...) raises ValueError on the chosen source
ValueError(c) == ValueSource(c) # {} /\ ~(Get(ValueSource(c), NotANumber).num)

\* value: {} for None, {n} otherwise
ContractValue(c) ==
    IF ValueSource(c) = {} THEN {} ELSE {Get(ValueSource(c), NotANumber).n}

\* deadline in UTC: {} for None (absent, empty or rejected by fromisoformat)
ParseDeadline(c) ==
    IF c.responseDeadLine = {} THEN {}
    ELSE LET d == Get(c.responseDeadLine, BadDate)
         IN  IF ~d.iso THEN {}
             ELSE IF d.aware THEN {d.t - d.off} ELSE {d.t}

\* a day count that rounds toward zero instead
TimedeltaDaysTrunc(delta) ==
    IF delta >= 0 THEN delta \div TicksPerDay ELSE -((-delta) \div TicksPerDay)

\* timedelta.days: the floor of the difference in days
TimedeltaDays(delta) == delta \div TicksPerDay

\* days_until_due: {} for None
DaysUntilDue(c, now) ==
    {TimedeltaDays(deadline - now) : deadline \in ParseDeadline(c)}

Expired(c, now) == \E d \in DaysUntilDue(c, now) : d < 0

\* the rate the comment of line 208 states: 0.5 point per $100k
ValueScoreHalfPoint(c) ==
    LET value == ContractValue(c)
    IN  IF value # {} /\ value # {0}
        THEN Min(VALUE_CAP * VALUE_DIVISOR, Get(value, 0) \div 2)
        ELSE 0

\* value_score, times VALUE_DIVISOR
ValueScore(c) ==
    LET value == ContractValue(c)
    IN  IF value # {} /\ value # {0}
        THEN Min(VALUE_CAP * VALUE_DIVISOR, Get(value, 0))
        ELSE 0

\* urgency_score, times VALUE_DIVISOR
UrgencyScore(c, now) ==
    LET days == DaysUntilDue(c, now)
    IN  IF days = {} THEN 0
        ELSE Max(0, Min(URGENCY_MAX * VALUE_DIVISOR,
                        (URGENCY_MAX * VALUE_DIVISOR * (URGENCY_DAYS - Get(days, 0)))
                            \div URGENCY_DAYS))

\* set_aside_score, times VALUE_DIVISOR
SetAsideScore(c) == SetAsideTable(Get(c.typeOfSetAside, "")) * VALUE_DIVISOR

FinalScore(c, now) == ValueScore(c) + UrgencyScore(c, now) + SetAsideScore(c)

\* line 230 evaluates the f-string only when 'id' and 'noticeId' are falsy
NeedsGeneratedId(c) == ~Truthy(c.id) /\ ~Truthy(c.noticeId)

\* the 'id' of the output entry
EntryId(c, now) ==
    Get(c.noticeId, Get(c.title, "") \o "_" \o ToString(now))

DeadlineDisplay(c) ==
    IF ParseDeadline(c) = {} THEN [text |-> "Pending", utc |-> 0]
    ELSE [text |-> "%B %d, %Y, %I:%M %p %Z", utc |-> Get(ParseDeadline(c), 0)]

ValueDisplay(c) ==
    LET value == ContractValue(c)
    IN  IF value # {} /\ value # {0}
        THEN [text |-> "${:,.2f}", n |-> Get(value, 0)]
        ELSE [text |-> "Pending Award Estimate", n |-> 0]

SetAsideDesc(c) ==
    LET d == IF Truthy(c.typeOfSetAsideDescription)
             THEN Get(c.typeOfSetAsideDescription, "")
             ELSE Get(c.typeOfSetAside, "Open Competition")
    IN  IF d = "" THEN "Open Competition" ELSE d

SetAsideMissing(c) ==
    ~Truthy(c.typeOfSetAsideDescription) /\ c.typeOfSetAside = {""}

\* ''.split('.') is [''], never the empty list
AgencyPath(c) == Get(c.fullParentPathName, <<"">>)

Agency(c) ==
    IF AgencyPath(c) # <<>> THEN AgencyPath(c)[Len(AgencyPath(c))]
    ELSE "Federal Government"

Location(c) ==
    IF c.placeOfPerformance = {} THEN "Multiple Locations"
    ELSE LET pop == Get(c.placeOfPerformance, [city |-> "", state |-> ""])
         IN  IF pop.city # "" /\ pop.state # "" THEN pop.city \o ", " \o pop.state
             ELSE IF pop.state # "" THEN pop.state
             ELSE "Multiple Locations"

MissingFields(c) ==
    (IF ValueSource(c) = {} THEN <<"contract_value">> ELSE <<>>)
    \o (IF SetAsideMissing(c) THEN <<"set_aside">> ELSE <<>>)
    \o (IF AgencyPath(c) = <<>> THEN <<"agency">> ELSE <<>>)
    \o (IF c.naicsCode = {""} THEN <<"naics_code">> ELSE <<>>)
    \o (IF c.placeOfPerformance = {} THEN <<"place_of_performance">> ELSE <<>>)

\* the dict appended to valid_contracts
Entry(c, now) ==
    [id             |-> EntryId(c, now),
     title          |-> Get(c.title, ""),
     deadline       |-> DeadlineDisplay(c),
     agency         |-> Agency(c),
     url            |-> Get(c.uiLink, ""),
     set_aside      |-> SetAsideDesc(c),
     value          |-> ValueDisplay(c),
     naics          |-> Get(c.naicsCode, "Not Specified"),
     location       |-> Location(c),
     score          |-> FinalScore(c, now),
     value_raw      |-> Get(ContractValue(c), 0),
     missing_fields |-> MissingFields(c)]

\* What one iteration of the for loop does with record c:
\*   "skip"  - continue: the deadline has passed, or ValueError / KeyError
\*             was caught by the except clause of the loop body;
\*   "raise" - an exception the clause does not catch leaves rank_contracts:
\*             deadline.strftime on None is an AttributeError;
\*   "entry" - a dict is appended to valid_contracts.
ProcessContract(c, now) ==
    IF ValueError(c) THEN "skip"
    ELSE IF Expired(c, now) THEN "skip"
    ELSE IF NeedsGeneratedId(c) /\ c.title = {} THEN "skip"
    ELSE IF NeedsGeneratedId(c) /\ ParseDeadline(c) = {} THEN "raise"
    ELSE IF c.title = {} THEN "skip"
    ELSE "entry"

----------------------------------------------------------------------------
(* rank_contracts: the batch *)

\* valid_contracts after the for loop over batch[i..]; raised when an
\* exception left the loop
RECURSIVE ValidContracts(_, _, _, _)
ValidContracts(batch, now, i, acc) ==
    IF i > Len(batch) THEN [raised |-> FALSE, valid |-> acc]
    ELSE LET kind == ProcessContract(batch[i], now)
         IN  IF kind = "raise" THEN [raised |-> TRUE, valid |-> acc]
             ELSE IF kind = "skip" THEN ValidContracts(batch, now, i + 1, acc)
             ELSE ValidContracts(batch, now, i + 1,
                                 Append(acc, Entry(batch[i], now)))

\* position of e in a list sorted by score, descending: after every element
\* whose score is not smaller (sorted(..., reverse=True) is stable)
RECURSIVE InsertByScore(_, _)
InsertByScore(s, e) ==
    IF s = <<>> THEN <<e>>
    ELSE IF Head(s).score >= e.score THEN <<Head(s)>> \o InsertByScore(Tail(s), e)
    ELSE <<e>> \o s

RECURSIVE SortedByScore(_)
SortedByScore(s) ==
    IF s = <<>> THEN <<>>
    ELSE InsertByScore(SortedByScore(SubSeq(s, 1, Len(s) - 1)), s[Len(s)])

\* ranked_contracts[:5]
TopSlice(s) == SubSeq(s, 1, Min(Len(s), TOP_N))

NotCalled == [called |-> FALSE, raised |-> FALSE, now |-> 0, out |-> <<>>]

\* the outcome of rank_contracts(batch) called at time now
RankContracts(batch, now) ==
    LET v == ValidContracts(batch, now, 1, <<>>)
    IN  IF v.raised
        THEN [called |-> TRUE, raised |-> TRUE, now |-> now, out |-> <<>>]
        ELSE [called |-> TRUE, raised |-> FALSE, now |-> now,
              out |-> TopSlice(SortedByScore(v.valid))]

----------------------------------------------------------------------------
(* fetch_sam_contracts: the filter applied to each fetched opportunity *)

SetAsideTypes == {"SBA", "SDVOSB", "8A", "HUBZone", "VOSB", "WOSB"}

Relevant(opp) ==
    /\ opp.active = {"Yes"}
    /\ opp.type # {"Award Notice"}
    /\ Truthy(opp.typeOfSetAside)
    /\ Get(opp.typeOfSetAside, "") \in SetAsideTypes

----------------------------------------------------------------------------
(* Inputs *)

SeqsUpTo(S, n) == UNION {[1..k -> S] : k \in 0..n}

\* batches for rank_contracts: any short sequence of records, followed by
\* up to MaxFill copies of one record
Batches ==
    {p \o [i \in 1..k |-> f] :
        p \in SeqsUpTo(RawRecords, MaxPrefix), k \in 0..MaxFill, f \in RawRecords}

\* what fetch_sam_contracts can hand to main: records that pass its filter
FetchedBatches == SeqsUpTo({r \in RawRecords : Relevant(r)}, MaxFetch)

\* contract_id values the contracts table may hold when the process starts
LedgerIds == {"N0001"}

\* what create_tweet can do: answer with data, answer without data (line 385
\* then raises), or raise
PublishResponses == {"data", "no data", "exception"}

----------------------------------------------------------------------------
(* Operations *)

\* fetch_sam_contracts not called yet.  offsets lists params['offset'] of
\* each request made, response is the kind of the last answer, result is
\* <<>> until the function returns and then <<n>>, n the length of the list
\* it returned; all_opportunities is the length of that list.
FetchIdle ==
    [pc |-> "idle", total_fetched |-> 0, all_opportunities |-> 0,
     offsets |-> <<>>, response |-> "none", result |-> <<>>]

IdleInit ==
    /\ fetch = FetchIdle
    /\ ranked = NotCalled
    /\ prev = NotCalled
    /\ pc = "idle"
    /\ contract = <<>>
    /\ retry_count = 0
    /\ outcomes = <<>>
    /\ sleeps = 0
    /\ result = "None"

postVars == <<pc, contract, retry_count, outcomes, sleeps, result>>

\* the wall clock advances between two calls
Tick ==
    /\ pc = "idle"
    /\ clock < MaxClock
    /\ clock' = clock + 1
    /\ UNCHANGED <<ledger, contracts, ranked, prev, postVars, fetch>>

\* setup_database(): DROP TABLE IF EXISTS contracts, then CREATE TABLE
SetupDatabase ==
    /\ pc = "idle"
    /\ ledger' = {}
    /\ UNCHANGED <<clock, contracts, ranked, prev, postVars, fetch>>

\* rank_contracts(contracts), called again on the batch of the previous call
RankCall ==
    /\ pc = "idle"
    /\ ranked' = RankContracts(contracts, clock)
    /\ prev' = ranked
    /\ UNCHANGED <<clock, ledger, contracts, postVars, fetch>>

\* main(): fetch, return when nothing was fetched, rank, log the top five.
\* An exception of rank_contracts is caught by main's except clause.  main
\* calls neither setup_database nor post_contract_tweet.  Of the call of
\* fetch_sam_contracts only the list it returns is kept here; its paging
\* loop is the subject of FetchStart and FetchPage.
Main ==
    /\ pc = "idle"
    /\ \E batch \in FetchedBatches :
         /\ contracts' = batch
         /\ ranked' = IF batch = <<>> THEN NotCalled
                      ELSE RankContracts(batch, clock)
    /\ UNCHANGED <<clock, ledger, prev, postVars, fetch>>

\* post_contract_tweet(twitter_client, contract) is entered
PostContractTweet ==
    /\ pc = "idle"
    /\ \E c \in Range(ranked.out) :
         /\ contract' = <<c>>
         /\ pc' = "post"
         /\ retry_count' = 0
         /\ outcomes' = <<>>
         /\ sleeps' = 0
         /\ result' = "None"
    /\ UNCHANGED <<clock, ledger, contracts, ranked, prev, fetch>>

\* a retry test that is off by one
RetryAgainOffByOne(n) == n <= max_retries

\* except branch: retry (and sleep) while retry_count < max_retries

RetryAgain(n) == n < max_retries

\* one iteration of the while loop: format_tweet builds the text (it reads
\* only keys every entry of rank_contracts has), create_tweet is called and
\* answers with data, without data, or by raising; a failure is followed by
\* the sleep of the except branch when another attempt is due
PostAttempt ==
    /\ pc = "post"
    /\ retry_count < max_retries
    /\ \E o \in PublishResponses :
         /\ outcomes' = Append(outcomes, IF o = "data" THEN "success" ELSE "failure")
         /\ IF o = "data"
            THEN /\ result' = "True"
                 /\ pc' = "idle"
                 /\ UNCHANGED <<retry_count, sleeps>>
            ELSE /\ retry_count' = retry_count + 1
                 /\ IF RetryAgain(retry_count + 1)
                    THEN /\ sleeps' = sleeps + 1
                         /\ UNCHANGED <<result, pc>>
                    ELSE /\ result' = "False"
                         /\ pc' = "idle"
                         /\ UNCHANGED sleeps
    /\ UNCHANGED <<clock, ledger, contracts, ranked, prev, contract, fetch>>

----------------------------------------------------------------------------
(* Specifications *)

\* the process: the table may already hold rows written by an earlier
\* deployment (setup_database itself expects an existing table)
Init ==
    /\ clock = 0
    /\ ledger \in SUBSET LedgerIds
    /\ contracts = <<>>
    /\ IdleInit

Next == Tick \/ SetupDatabase \/ Main \/ PostContractTweet \/ PostAttempt

Spec == Init /\ [][Next]_vars

\* rank_contracts alone, called at any time and again later on the same batch
InitRank ==
    /\ clock = 0
    /\ ledger = {}
    /\ contracts \in Batches
    /\ IdleInit

NextRank == Tick \/ RankCall

SpecRank == InitRank /\ [][NextRank]_vars

----------------------------------------------------------------------------
(* Claims about publishing and the ledger (specification Spec) *)

\* C1 - At-most-once announcement: no create_tweet call is issued for an
\* opportunity whose id the ledger already held when the run started.  No
\* operation adds rows, so an id in the ledger now was in it at the start.
\* The code violates it: post_contract_tweet never consults the ledger.
AtMostOnceAnnouncement ==
    \A i \in DOMAIN contract :
        outcomes # <<>> => contract[i].id \notin ledger

\* C2 - Publish-then-record: once a publish attempt has succeeded and
\* post_contract_tweet has returned True, the ledger holds an entry keyed by
\* that opportunity's id.  The code violates it: nothing inserts a row.
PublishThenRecord ==
    \A i \in DOMAIN contract :
        result = "True" => contract[i].id \in ledger

\* C3 - Ledger durability: no step removes an entry from the ledger.  The
\* code violates it: setup_database drops the table.
LedgerDurable == [][ledger \subseteq ledger']_vars

\* C4 - Bounded publish retry: at most 3 create_tweet calls per invocation,
\* none after the first success; every failed attempt that is followed by
\* another one is followed by exactly one sleep, and the last attempt by
\* none (k attempts, k-1 sleeps); True iff an attempt succeeded, False iff
\* all 3 failed; failure, failure, success gives 3 calls, 2 sleeps, True.
BoundedPublishRetry ==
    LET n == Len(outcomes)
    IN  /\ n <= 3
        /\ \A i \in 1..(n - 1) : outcomes[i] = "failure"
        /\ pc = "post" =>
              /\ n < 3
              /\ result = "None"
              /\ sleeps = n
              /\ \A i \in 1..n : outcomes[i] = "failure"
        /\ (pc = "idle" /\ n > 0) => (sleeps = n - 1 /\ result # "None")
        /\ result = "True" <=> (pc = "idle" /\ n > 0 /\ outcomes[n] = "success")
        /\ result = "False" <=>
              (pc = "idle" /\ n = 3 /\ \A i \in 1..n : outcomes[i] = "failure")
        /\ outcomes = <<"failure", "failure", "success">> =>
              (sleeps = 2 /\ result = "True")

\* C4 witness: two failures, then a success
RetriedThenPublished ==
    /\ outcomes = <<"failure", "failure", "success">>
    /\ sleeps = 2
    /\ result = "True"
    /\ pc = "idle"

----------------------------------------------------------------------------
(* Claims about rank_contracts (specification SpecRank) *)

\* the filter of the specification: a record is skipped only when it has no
\* title, and dropped only when its deadline lies before now
SurvivesFiltering(c, now) == c.title # {} /\ ~ValueError(c) /\ ~Expired(c, now)

\* entry e is record c kept with the documented defaults
KeptWithDefaults(c, e) ==
    /\ e.title = Get(c.title, "")
    /\ ParseDeadline(c) = {} => e.deadline.text = "Pending"
    /\ ValueSource(c) = {} => e.value.text = "Pending Award Estimate"
    /\ (c.typeOfSetAside = {} /\ c.typeOfSetAsideDescription = {})
          => e.set_aside = "Open Competition"
    /\ c.fullParentPathName = {} => e.agency = "Federal Government"

\* C5 - Missing optional fields never make ranking fail: rank_contracts
\* returns normally on every batch, and (in a batch small enough not to be
\* cut to the top five) every record with a title that survives filtering
\* is kept, with the documented defaults for the fields it lacks.  The code
\* violates it: a record without identifier and without deadline raises
\* AttributeError, and an absent agency becomes the empty string.
MissingFieldsTolerated ==
    ranked.called =>
        /\ ~ranked.raised
        /\ Len(contracts) <= TOP_N =>
              \A i \in DOMAIN contracts :
                  SurvivesFiltering(contracts[i], ranked.now) =>
                      \E e \in Range(ranked.out) : KeptWithDefaults(contracts[i], e)

\* C6 - Expiry filter: no entry of the output has a deadline strictly before
\* the time of the call, by however little.
ExpiryFilter ==
    ranked.called =>
        \A e \in Range(ranked.out) :
            e.deadline.text # "Pending" => e.deadline.utc >= ranked.now

\* C6 witness: a call that returned entries although the batch held a record
\* whose deadline had passed by less than one day
ExpiredByLessThanADay ==
    /\ ranked.called /\ ~ranked.raised /\ ranked.out # <<>>
    /\ \E i \in DOMAIN contracts :
         \E d \in ParseDeadline(contracts[i]) :
             d < ranked.now /\ ranked.now - d < TicksPerDay

\* C7 - Score bounds: every record that yields an entry has value_score in
\* [0,50], urgency_score in [0,30], set_aside_score in {0,10,15,20}, and
\* every entry of the output has 0 <= score <= 100.  The code violates it:
\* a negative value gives a negative value_score.
ScoreBounds ==
    ranked.called =>
        /\ \A e \in Range(ranked.out) :
              0 <= e.score /\ e.score <= 100 * VALUE_DIVISOR
        /\ \A i \in DOMAIN contracts :
              ProcessContract(contracts[i], ranked.now) = "entry" =>
                  /\ 0 <= ValueScore(contracts[i])
                  /\ ValueScore(contracts[i]) <= 50 * VALUE_DIVISOR
                  /\ 0 <= UrgencyScore(contracts[i], ranked.now)
                  /\ UrgencyScore(contracts[i], ranked.now) <= 30 * VALUE_DIVISOR
                  /\ SetAsideScore(contracts[i]) \in
                        {0, 10 * VALUE_DIVISOR, 15 * VALUE_DIVISOR, 20 * VALUE_DIVISOR}

\* C8 - Within-batch deduplication: no two entries of the output share an
\* id.  The code violates it: nothing removes duplicates.
WithinBatchDedup ==
    ranked.called =>
        \A i, j \in DOMAIN ranked.out :
            i # j => ranked.out[i].id # ranked.out[j].id

\* the explicit identifier of a record: 'id', else 'noticeId'
ExplicitId(c) == IF Truthy(c.id) THEN c.id ELSE IF Truthy(c.noticeId) THEN c.noticeId ELSE {}

\* C9 - Stable id derivation: the entries two calls produce for the same raw
\* record carry the same id, which is the record's explicit identifier when
\* it has one.  The code violates it: without noticeId the id is the title
\* followed by the time of the call, also when the record carries 'id'.
StableIdDerivation ==
    (prev.called /\ ranked.called) =>
        \A k \in DOMAIN contracts :
            \A e1 \in Range(prev.out), e2 \in Range(ranked.out) :
                ( /\ ProcessContract(contracts[k], prev.now) = "entry"
                  /\ ProcessContract(contracts[k], ranked.now) = "entry"
                  /\ e1 = Entry(contracts[k], prev.now)
                  /\ e2 = Entry(contracts[k], ranked.now) )
                => /\ e1.id = e2.id
                   /\ \A x \in ExplicitId(contracts[k]) : e1.id = x /\ e2.id = x

\* C10 - Bounded output: rank_contracts returns, on every batch, the
\* surviving entries, at most 5 of them: all of them when fewer than 5
\* survive, the empty sequence and no error when none does.  The code
\* violates it through the exception of C5: that call returns nothing.
BoundedOutput ==
    ranked.called =>
        /\ ~ranked.raised
        /\ Len(ranked.out) <= 5
        /\ LET s == Cardinality({i \in DOMAIN contracts :
                                    SurvivesFiltering(contracts[i], ranked.now)})
           IN  Len(ranked.out) = Min(5, s)

\* an SDVOSB opportunity worth $2,000,000 that yields an entry
ReferenceOpportunity(c, now) ==
    /\ c.typeOfSetAside = {"SDVOSB"}
    /\ ContractValue(c) = {2000000}
    /\ ProcessContract(c, now) = "entry"

DueNow(c, now) == ParseDeadline(c) = {now}

DueIn30Days(c, now) == ParseDeadline(c) = {now + 30 * TicksPerDay}

\* the sub-scores of record c and the score of its entry in the output, in
\* points
ScoresAre(c, now, value_score, urgency_score, set_aside_score, score) ==
    /\ ValueScore(c) = value_score * VALUE_DIVISOR
    /\ UrgencyScore(c, now) = urgency_score * VALUE_DIVISOR
    /\ SetAsideScore(c) = set_aside_score * VALUE_DIVISOR
    /\ \A e \in Range(ranked.out) :
          e = Entry(c, now) => e.score = score * VALUE_DIVISOR

----------------------------------------------------------------------------
(* fetch_sam_contracts: the paging loop (specification SpecFetch) *)

\* lengths of a non-empty opportunitiesData: shorter than the limit, the
\* limit, longer than the limit
PageSizes == {LIMIT \div 2, LIMIT, LIMIT + LIMIT \div 2}

\* What one requests.get can bring:
\*   "request exception" - requests.get raises RequestException;
\*   "not 200"           - a status code other than 200;
\*   "not json"          - response.json() raises ValueError;
\*   "no data"           - a JSON object without opportunitiesData;
\*   "empty"             - opportunitiesData is empty;
\*   "malformed"         - JSON on which the loop body raises anything else
\*                         (null body, an entry that is no object);
\*   "page"              - n opportunities, of which relevant pass the filter.
Responses ==
    {[kind |-> k, n |-> 0, relevant |-> 0] :
        k \in {"request exception", "not 200", "not json", "no data",
               "empty", "malformed"}}
    \cup UNION {{[kind |-> "page", n |-> n, relevant |-> r] : r \in {0, n}} :
                  n \in PageSizes}

\* responses after which the while loop is left by break
Breaks == {"not 200", "not json", "no data", "empty"}

\* responses after which the outer except clauses return []
ReturnsEmpty == {"request exception", "malformed"}

\* a count that adds the relevant opportunities only
NextTotalFetchedRelevant(total_fetched, r) == total_fetched + r.relevant

\* total_fetched += len(opportunities)
NextTotalFetched(total_fetched, r) == total_fetched + r.n

\* if len(opportunities) < params['limit']: break
ShortPage(r) == r.n < LIMIT

\* fetch_sam_contracts() is entered with SAM_API_KEY set
FetchStart ==
    /\ pc = "idle"
    /\ fetch.pc # "loop"
    /\ fetch' = [FetchIdle EXCEPT !.pc = "loop"]
    /\ UNCHANGED <<clock, ledger, contracts, ranked, prev, postVars>>

\* one iteration of the while loop, entered with total_fetched < max_results:
\* the request at offset total_fetched, the handling of its answer and, when
\* the loop is left, the return
FetchPage ==
    /\ fetch.pc = "loop"
    /\ fetch.total_fetched < max_results
    /\ \E r \in Responses :
         LET sent == [fetch EXCEPT !.offsets = Append(@, fetch.total_fetched),
                                   !.response = r.kind]
             all == fetch.all_opportunities + r.relevant
             total == NextTotalFetched(fetch.total_fetched, r)
         IN  fetch' =
               IF r.kind \in ReturnsEmpty
               THEN [sent EXCEPT !.pc = "returned", !.result = <<0>>]
               ELSE IF r.kind \in Breaks
               THEN [sent EXCEPT !.pc = "returned",
                                 !.result = <<fetch.all_opportunities>>]
               ELSE IF ShortPage(r) \/ ~(total < max_results)
               THEN [sent EXCEPT !.pc = "returned", !.all_opportunities = all,
                                 !.total_fetched = total, !.result = <<all>>]
               ELSE [sent EXCEPT !.all_opportunities = all,
                                 !.total_fetched = total]
    /\ UNCHANGED <<clock, ledger, contracts, ranked, prev, postVars>>

InitFetch ==
    /\ clock = 0
    /\ ledger = {}
    /\ contracts = <<>>
    /\ IdleInit

NextFetch == FetchStart \/ FetchPage

SpecFetch == InitFetch /\ [][NextFetch]_vars

\* C12 - Fetch pagination terminates: at most max_results / limit = 10
\* requests are made, each at an offset below 1000 and above the offset of
\* the request before it; the loop goes on only after a full page that left
\* total_fetched below 1000, and after every other answer the function has
\* returned, with a list.
FetchPaginationBounded ==
    LET n == Len(fetch.offsets)
    IN  /\ n <= 10
        /\ \A i \in 1..n : fetch.offsets[i] < 1000
        /\ \A i \in 1..(n - 1) : fetch.offsets[i] < fetch.offsets[i + 1]
        /\ fetch.pc = "loop" =>
              /\ fetch.total_fetched < 1000
              /\ fetch.response \in {"none", "page"}
              /\ n > 0 => fetch.total_fetched >= fetch.offsets[n] + 100
              /\ fetch.result = <<>>
        /\ fetch.response \in (Breaks \cup ReturnsEmpty) => fetch.pc = "returned"
        /\ fetch.pc = "idle" => n = 0
        /\ fetch.pc = "returned" =>
              /\ Len(fetch.result) = 1
              /\ fetch.result[1] <= fetch.all_opportunities
              /\ n > 0

\* C12 witness: ten full pages were fetched and the loop ended at the cap
FetchedToTheCap ==
    /\ fetch.pc = "returned"
    /\ Len(fetch.offsets) = 10
    /\ fetch.total_fetched >= 1000
    /\ fetch.response = "page"
    /\ fetch.result = <<fetch.all_opportunities>>

====
